---- MODULE Spec2Model ----
(***************************************************************************)
(* Backtest run orchestrator (DirectBacktestScriptImpl.executeScript), the *)
(* run registry (BotRegistry) and the session registry (SessionRegistry)   *)
(* over a shared key-value store.  Every store operation is one atomic     *)
(* step that may fail; the orchestrator's local code between two awaits    *)
(* runs in the same step as the store operation that precedes it.          *)
(***************************************************************************)
EXTENDS Integers, Sequences, FiniteSets, TLC

\* ---------------------------------------------------------------- bounds
MaxRuns == 3
MaxFaults == 1
MaxCandles == 3

\* ------------------------------------------------------ program constants
MaxAttempts == 10
DefaultTtlSeconds == 86400
NoTtl == 0
NegInfinity == -1000
INDICATOR_WARMUP_PERIOD == 200

Procs == {"o1", "o2"}
Hashes == {"h1", "h2"}
Profits == {-5, 10}

\* timestamps of the first and the last fetched candle
fetchedCandles == <<1, 2>>
candleStartTimestamp == fetchedCandles[1]
candleEndTimestamp == fetchedCandles[Len(fetchedCandles)]

VARIABLES
  pc,              \* position of each orchestrator in executeScript
  stopRequested,   \* SIGINT flag
  runCount, attempts,
  totalProfit, bestProfit, bestConfig,
  configHash,
  performance,     \* performance.profit of the run being persisted
  sessionSummary,  \* summary built before the per-run updateSession await
  runs,            \* run records, keyed by configHash (one context)
  sessions,        \* session records, keyed by sessionKey
  trades,          \* trade lists, keyed by configHash
  faults,          \* store operations that have failed so far
  quota,           \* iterations each orchestrator is observed for
  \* ---- history (observation only, never read by the program's actions)
  started, completions, tradeCalls, updateCalls, finalCalls,
  lastUpdate,      \* arguments of the orchestrator's last updateSession call
  profits,         \* profits of the runs completed so far, in order
  stopWritten,     \* an external actor has written currentStatus = stopped
  allowedRuns,     \* iterations each orchestrator may have begun after it
  sigintMidRun,    \* SIGINT arrived while a claimed run was in progress
  \* ---- one simulation pass: trade tracking and computePerformance
  simPc,           \* "idle", "candles" (simulation loop) or "done"
  candleIndex,     \* index of the next candle of the simulation loop
  prevPosition, openTrade,
  thisTrades,      \* this.trades
  openPosition,    \* argument of computePerformance, set by the flush
  perfResult,      \* what computePerformance returned
  perfArgs,        \* the balances computePerformance was called with
  positions,       \* history: the position snapshots seen, initial one first
  \* ---- a direct caller of the registries
  apiCall          \* the last registry call: operation, arguments, result

loopVars == <<runCount, attempts>>
accVars == <<totalProfit, bestProfit, bestConfig>>
runVars == <<performance, sessionSummary>>
progVars == <<pc, stopRequested, loopVars, accVars, configHash, runVars>>
storeVars == <<runs, sessions, trades>>
envVars == <<faults, quota>>
stopVars == <<stopWritten, allowedRuns, sigintMidRun>>
histVars == <<started, completions, tradeCalls, updateCalls, finalCalls,
              lastUpdate, profits, stopVars>>
simVars == <<simPc, candleIndex, prevPosition, openTrade, thisTrades,
             openPosition, perfResult, perfArgs, positions>>
auxVars == <<simVars, apiCall>>
vars == <<progVars, storeVars, envVars, histVars, auxVars>>

\* ------------------------------------------------------------ contexts
RunCtx == [startTimestamp |-> candleStartTimestamp, endTimestamp |-> candleEndTimestamp]
sessionKey(ctx) == <<ctx.startTimestamp, ctx.endTimestamp>>

NoRecord == [status |-> "not_found"]
NoSession == [currentStatus |-> "null"]
NoConfig == ""
NoUpdate == [kind |-> "none"]
NoCall == [op |-> "none"]

\* ------------------------------------------------------------ the store
\* outcomes of a driver get/set: TRUE = served, FALSE = failed
Outcomes == IF faults < MaxFaults THEN BOOLEAN ELSE {TRUE}
Fail(ok) == faults' = faults + (IF ok THEN 0 ELSE 1)

\* ------------------------------------------------------------ BotRegistry
\* a context without configHash makes every BotRegistry method throw before
\* the driver is reached
\* status returned by checkBacktestRunStatus; record is what driver.get yields
checkBacktestRunStatus(ok, record, h) ==
  IF h = NoConfig THEN "throws"
  ELSE IF ~ok THEN "not_found"
  ELSE IF record = NoRecord THEN "not_found"
  ELSE IF record.status # "" /\ record.botId # "" /\ record.configHash = h
         THEN record.status
  ELSE "not_found"

\* the record returned next to the status (absent unless a status is found)
checkBacktestRunRecord(ok, record, h) ==
  IF checkBacktestRunStatus(ok, record, h) \in {"throws", "not_found"}
    THEN NoRecord ELSE record

\* return value of recordBacktestRunStart / Completion / deleteBacktestRunRecord
registryWriteResult(ok, h) ==
  IF h = NoConfig THEN "throws" ELSE IF ok THEN "true" ELSE "false"

recordBacktestRunStartNoTtl(ok, h, botId) ==
  IF ok /\ h # NoConfig
    THEN [runs EXCEPT ![h] =
            [status |-> "running", botId |-> botId, configHash |-> h,
             ttl |-> NoTtl, resultsMetadata |-> <<>>, configuration |-> NoConfig]]
    ELSE runs
\* ttlSeconds defaults to 86400; the record has no results and no configuration
recordBacktestRunStart(ok, h, botId) ==
  IF ok /\ h # NoConfig
    THEN [runs EXCEPT ![h] =
            [status |-> "running", botId |-> botId, configHash |-> h,
             ttl |-> DefaultTtlSeconds, resultsMetadata |-> <<>>,
             configuration |-> NoConfig]]
    ELSE runs

recordBacktestRunCompletionMerging(ok, h, botId, status, configuration, results) ==
  IF ok /\ h # NoConfig
    THEN [runs EXCEPT ![h] =
            [status |-> status, botId |-> botId, configHash |-> h,
             ttl |-> IF runs[h] = NoRecord THEN NoTtl ELSE runs[h].ttl,
             resultsMetadata |->
               IF runs[h] = NoRecord THEN <<results>>
               ELSE runs[h].resultsMetadata \o <<results>>,
             configuration |-> configuration]]
    ELSE runs
\* driver.set(key, record, 0): the whole record is replaced, with no TTL
recordBacktestRunCompletion(ok, h, botId, status, configuration, results) ==
  IF ok /\ h # NoConfig
    THEN [runs EXCEPT ![h] =
            [status |-> status, botId |-> botId, configHash |-> h,
             ttl |-> NoTtl, resultsMetadata |-> <<results>>,
             configuration |-> configuration]]
    ELSE runs

deleteBacktestRunRecord(ok, h) ==
  IF ok /\ h # NoConfig THEN [runs EXCEPT ![h] = NoRecord] ELSE runs

\* -------------------------------------------------------- SessionRegistry
updateSession(ok, ctx, summary) ==
  IF ok THEN [sessions EXCEPT ![sessionKey(ctx)] = summary] ELSE sessions

\* the stored currentStatus; null on absence or storage error
fetchSession(ok, ctx) ==
  IF ok THEN sessions[sessionKey(ctx)].currentStatus ELSE "null"

\* redis.scan runs outside any try block: if it fails the call throws;
\* a failing driver.get of one key only drops that key from the result
listSessions(scanOk, getOk) ==
  IF ~scanOk THEN [result |-> "throws", listed |-> {}]
  ELSE [result |-> "ok",
        listed |-> {k \in DOMAIN sessions : sessions[k] # NoSession /\ k \in getOk}]

UpdateCall(kind, ok, ctx, summary) ==
  [kind |-> kind, key |-> sessionKey(ctx), ok |-> ok,
   currentStatus |-> summary.currentStatus, active |-> summary.active]

\* ----------------------------------------------------------- orchestrator
LoopCondNoFlag(p) == TRUE
LoopCond(p) == ~stopRequested[p]

\* where the do-while / skip test sends the orchestrator after one check
AfterCheckOneMore(status, att) ==
  IF status # "not_found" /\ att <= MaxAttempts THEN "check"
  ELSE IF status # "not_found" THEN "loop"
  ELSE "start"
AfterCheck(status, att) ==
  IF status # "not_found" /\ att < MaxAttempts THEN "check"
  ELSE IF status # "not_found" THEN "loop"
  ELSE "start"

\* where the pause/stop check sends the orchestrator after one fetch
AfterFetchNoWait(status) ==
  IF status = "stopped" THEN "final" ELSE "loop"
AfterFetch(status) ==
  IF status = "paused" THEN "sleep"
  ELSE IF status = "stopped" THEN "final"
  ELSE "loop"

RunSummary(p) ==
  [runCount |-> runCount[p],
   lastConfigHash |-> configHash[p],
   bestProfit |-> bestProfit[p],
   bestConfigHash |-> IF bestConfig[p] # NoConfig THEN bestConfig[p] ELSE configHash[p],
   currentProfit |-> performance[p],
   currentStatus |-> "running",
   avgProfit |-> <<totalProfit[p], runCount[p]>>,
   completedRuns |-> runCount[p],
   active |-> ~stopRequested[p],
   notes |-> ""]

FinalSummaryStillActive(p) == RunSummary(p)
FinalSummary(p) ==
  [runCount |-> runCount[p],
   lastConfigHash |-> bestConfig[p],
   bestProfit |-> bestProfit[p],
   bestConfigHash |-> bestConfig[p],
   currentProfit |-> IF bestConfig[p] # NoConfig THEN bestProfit[p] ELSE 0,
   currentStatus |-> IF stopRequested[p] THEN "stopped" ELSE "completed",
   avgProfit |-> IF runCount[p] > 0 THEN <<totalProfit[p], runCount[p]>> ELSE <<0, 1>>,
   completedRuns |-> runCount[p],
   active |-> FALSE,
   notes |-> ""]

failedSessionCtx == [startTimestamp |-> 0, endTimestamp |-> 0]
failedSessionSummary ==
  [currentStatus |-> "failed", active |-> FALSE, notes |-> "Script failed"]

SessionKeys == {sessionKey(RunCtx), sessionKey(failedSessionCtx)}

\* ------------------------------------------------- one simulation pass
\* position snapshots the market may report after a candle
Sizes == {-3, 0, 5}
EntryPrices == {100, 110}
RealizedPnls == {-4, 0, 7}
Snapshots ==
  {[size |-> sz, entryPrice |-> ep, realizedPnl |-> rp] :
     sz \in Sizes, ep \in EntryPrices, rp \in RealizedPnls}
QuoteBalances == {1000, 1050}
initialBalance == 1000

\* candle [timestamp, open, high, low, close, volume] at an index of the loop
candleTimestamp(i) == i - INDICATOR_WARMUP_PERIOD + 1
candleClose(i) == 100 + 2 * candleTimestamp(i)

FlatPosition == [size |-> 0, entryPrice |-> 0, entryTimestamp |-> 0, realizedPnl |-> 0]
NoTrade == [entryTimestamp |-> -1]
NoPosition == [size |-> 0]
NoPerformance == [numTrades |-> -1]
NoArgs == [initialBalance |-> 0, finalQuoteBalance |-> 0]

Sign(x) == IF x > 0 THEN 1 ELSE IF x < 0 THEN -1 ELSE 0

NewTrade(currentTimestamp, positionEnd) ==
  [entryTimestamp |-> currentTimestamp,
   entryPrice |-> positionEnd.entryPrice,
   entrySize |-> positionEnd.size,
   exitTimestamp |-> 0, exitPrice |-> 0, exitSize |-> 0, realizedPnl |-> 0]

CloseTradeAtEntry(tr, exitTimestamp, exitPrice, exitSize, positionEnd, prev) ==
  [tr EXCEPT !.exitTimestamp = tr.entryTimestamp,
             !.exitPrice = exitPrice,
             !.exitSize = exitSize,
             !.realizedPnl = positionEnd.realizedPnl]
CloseTrade(tr, exitTimestamp, exitPrice, exitSize, positionEnd, prev) ==
  [tr EXCEPT !.exitTimestamp = exitTimestamp,
             !.exitPrice = exitPrice,
             !.exitSize = exitSize,
             !.realizedPnl = positionEnd.realizedPnl - prev.realizedPnl]

IsReversalNever(prev, positionEnd) == FALSE
IsReversal(prev, positionEnd) ==
  prev.size # 0 /\ Sign(prev.size) # Sign(positionEnd.size)

TrackTradeKeepsOpen(prev, positionEnd, currentTimestamp, currentClose, tr, list) ==
  IF prev.size = 0 /\ positionEnd.size # 0
    THEN [openTrade |-> NewTrade(currentTimestamp, positionEnd), trades |-> list]
  ELSE IF prev.size # 0 /\ positionEnd.size = 0 /\ tr # NoTrade
    THEN [openTrade |-> tr,
          trades |-> Append(list, CloseTrade(tr, currentTimestamp, currentClose,
                                             prev.size, positionEnd, prev))]
  ELSE [openTrade |-> tr, trades |-> list]
\* the if / else-if chain of the trade tracking logic for one candle:
\* the open trade and the trade list after it
TrackTrade(prev, positionEnd, currentTimestamp, currentClose, tr, list) ==
  IF prev.size = 0 /\ positionEnd.size # 0
    THEN [openTrade |-> NewTrade(currentTimestamp, positionEnd), trades |-> list]
  ELSE IF prev.size # 0 /\ positionEnd.size = 0 /\ tr # NoTrade
    THEN [openTrade |-> NoTrade,
          trades |-> Append(list, CloseTrade(tr, currentTimestamp, currentClose,
                                             prev.size, positionEnd, prev))]
  ELSE IF IsReversal(prev, positionEnd)
    THEN [openTrade |-> NewTrade(currentTimestamp, positionEnd),
          trades |-> IF tr # NoTrade
                       THEN Append(list, CloseTrade(tr, currentTimestamp, currentClose,
                                                    prev.size, positionEnd, prev))
                       ELSE list]
  ELSE [openTrade |-> tr, trades |-> list]

RECURSIVE SumPnl(_)
SumPnl(list) == IF list = <<>> THEN 0 ELSE list[1].realizedPnl + SumPnl(Tail(list))

\* realizedPnl / (entrySize * entryPrice || 1), as <<numerator, denominator>>
TradeReturn(pnl, size, price) ==
  <<pnl, IF size * price # 0 THEN size * price ELSE 1>>

\* a quotient as <<numerator, denominator>>: sign-normalised parts, order
Num(q) == IF q[2] < 0 THEN -q[1] ELSE q[1]
Den(q) == IF q[2] < 0 THEN -q[2] ELSE q[2]
RatGreater(a, b) == Num(a) * Den(b) > Num(b) * Den(a)
RatEqual(a, b) == Num(a) * Den(b) = Num(b) * Den(a)

\* the equity / peak / drawdown part of the loop over the trades: the
\* maxDrawdown it ends with
RECURSIVE MaxDrawdownLoop(_, _, _, _)
MaxDrawdownLoop(list, equity, peak, maxDrawdown) ==
  IF list = <<>> THEN maxDrawdown
  ELSE LET e == equity + list[1].realizedPnl
           pk == IF e > peak THEN e ELSE peak
           drawdown == <<pk - e, IF pk # 0 THEN pk ELSE 1>>
       IN MaxDrawdownLoop(Tail(list), e, pk,
                          IF RatGreater(drawdown, maxDrawdown)
                            THEN drawdown ELSE maxDrawdown)

\* ---- the return series in IEEE-754 double arithmetic (round to nearest,
\* ties to even). A double is held exactly: a sign and a magnitude that is an
\* integer multiple of 2^-120, written in Limbs limbs of LimbBits bits, most
\* significant first; the first limb is the integer part.
LimbBits == 15
LimbBase == 32768
Limbs == 9
Mantissa == 53

\* 2^k for k up to LimbBits
Pow2(k) ==
  <<1, 2, 4, 8, 16, 32, 64, 128, 256, 512, 1024, 2048, 4096, 8192, 16384,
    32768>>[k + 1]
RECURSIVE BitLen(_)
BitLen(v) == IF v = 0 THEN 0 ELSE 1 + BitLen(v \div 2)

MagZero == [i \in 1..Limbs |-> 0]
FloatZero == [neg |-> FALSE, mag |-> MagZero]

\* long division of a magnitude by a small positive integer
RECURSIVE DivLimbs(_, _, _)
DivLimbs(x, q, r) ==
  IF x = <<>> THEN [quot |-> <<>>, rem |-> r]
  ELSE LET cur == r * LimbBase + Head(x)
           rest == DivLimbs(Tail(x), q, cur % q)
       IN [quot |-> <<cur \div q>> \o rest.quot, rem |-> rest.rem]

\* a + b and a - b (for a >= b), limb by limb from the last limb i
RECURSIVE AddLimbs(_, _, _, _)
AddLimbs(a, b, i, carry) ==
  IF i = 0 THEN <<>>
  ELSE LET t == a[i] + b[i] + carry
       IN Append(AddLimbs(a, b, i - 1, t \div LimbBase), t % LimbBase)
MagAdd(a, b) == AddLimbs(a, b, Limbs, 0)
RECURSIVE SubLimbs(_, _, _, _)
SubLimbs(a, b, i, borrow) ==
  IF i = 0 THEN <<>>
  ELSE LET t == a[i] - b[i] - borrow
       IN Append(SubLimbs(a, b, i - 1, IF t < 0 THEN 1 ELSE 0),
                 IF t < 0 THEN t + LimbBase ELSE t)
MagSub(a, b) == SubLimbs(a, b, Limbs, 0)
MagLess(a, b) ==
  \E i \in 1..Limbs : a[i] < b[i] /\ \A j \in 1..(i - 1) : a[j] = b[j]

\* the nearest double of an exact magnitude; sticky: the exact value has
\* further non-zero bits below the last limb
RoundToDouble(mag, sticky) ==
  IF mag = MagZero THEN mag
  ELSE
    LET top == CHOOSE i \in 1..Limbs : mag[i] # 0 /\ \A j \in 1..(i - 1) : mag[j] = 0
        leading == LimbBits * (Limbs - top) + BitLen(mag[top]) - 1
        c == leading - (Mantissa - 1)
    IN IF c <= 0 THEN mag
       ELSE
         LET idx == Limbs - (c \div LimbBits)
             bc == c % LimbBits
             unit == Pow2(bc)
             half == IF bc > 0 THEN unit \div 2 ELSE LimbBase \div 2
             low == IF bc > 0 THEN mag[idx] % unit ELSE mag[idx + 1]
             below == IF bc > 0 THEN idx + 1 ELSE idx + 2
             guard == low >= half
             rest == \/ low % half # 0
                     \/ \E j \in below..Limbs : mag[j] # 0
                     \/ sticky
             kept == mag[idx] \div unit
             up == guard /\ (rest \/ kept % 2 = 1)
             truncated == [i \in 1..Limbs |->
                             IF i < idx THEN mag[i]
                             ELSE IF i = idx THEN kept * unit ELSE 0]
         IN IF up
              THEN MagAdd(truncated, [i \in 1..Limbs |-> IF i = idx THEN unit ELSE 0])
              ELSE truncated

\* the double a / b of a quotient <<a, b>> of integers
FloatOf(q) ==
  LET n == Num(q)
      d == DivLimbs([i \in 1..Limbs |-> IF i = 1 THEN (IF n < 0 THEN -n ELSE n) ELSE 0],
                    Den(q), 0)
      mag == RoundToDouble(d.quot, d.rem # 0)
  IN [neg |-> n < 0 /\ mag # MagZero, mag |-> mag]

\* x + y
FloatAdd(x, y) ==
  IF x.neg = y.neg
    THEN [neg |-> x.neg, mag |-> RoundToDouble(MagAdd(x.mag, y.mag), FALSE)]
  ELSE IF x.mag = y.mag THEN FloatZero
  ELSE IF MagLess(x.mag, y.mag)
    THEN [neg |-> y.neg, mag |-> RoundToDouble(MagSub(y.mag, x.mag), FALSE)]
  ELSE [neg |-> x.neg, mag |-> RoundToDouble(MagSub(x.mag, y.mag), FALSE)]

\* x / n for a positive integer n
FloatDiv(x, n) ==
  LET d == DivLimbs(x.mag, n, 0)
      mag == RoundToDouble(d.quot, d.rem # 0)
  IN [neg |-> x.neg /\ mag # MagZero, mag |-> mag]

\* returns.reduce((a, b) => a + b, 0)
RECURSIVE FloatSum(_, _)
FloatSum(q, acc) ==
  IF q = <<>> THEN acc ELSE FloatSum(Tail(q), FloatAdd(acc, Head(q)))

\* sharpe = std > 0 ? mean / std : 0, held as the mean and whether it is 0
ZeroSharpe == [zero |-> TRUE, mean |-> FloatZero]
SharpeRatio(mean, stdPositive) ==
  IF stdPositive THEN [zero |-> mean = FloatZero, mean |-> mean] ELSE ZeroSharpe

\* mean and std of the return series. std is the square root of the mean of
\* the squared deviations b - mean, so std > 0 exactly when some return
\* differs from the computed mean (the squares are far from underflow)
Sharpe(returns) ==
  LET count == Len(returns)
      r == [k \in 1..count |-> FloatOf(returns[k])]
      mean == IF count > 0 THEN FloatDiv(FloatSum(r, FloatZero), count) ELSE FloatZero
  IN SharpeRatio(mean, \E k \in 1..count : r[k] # mean)

computePerformance(list, initial, finalQuoteBalance, open) ==
  LET numTrades == Len(list)
      wins == Cardinality({k \in 1..Len(list) : list[k].realizedPnl > 0})
      losses == Cardinality({k \in 1..Len(list) : ~(list[k].realizedPnl > 0)})
      hasOpen == open # NoPosition /\ open.size # 0
      unrealizedPnl == IF hasOpen
                         THEN (open.currentPrice - open.entryPrice) * open.size
                         ELSE 0
      returns == [k \in 1..Len(list) |->
                    TradeReturn(list[k].realizedPnl, list[k].entrySize, list[k].entryPrice)]
                 \o (IF hasOpen
                       THEN <<TradeReturn(unrealizedPnl, open.size, open.entryPrice)>>
                       ELSE <<>>)
  IN [profit |-> finalQuoteBalance + SumPnl(list) + unrealizedPnl - initial,
      sharpe |-> Sharpe(returns),
      maxDrawdown |-> MaxDrawdownLoop(list, finalQuoteBalance, initial, <<0, 1>>),
      winRate |-> IF numTrades > 0 THEN <<wins, numTrades>> ELSE <<0, 1>>,
      numTrades |-> numTrades,
      wins |-> wins, losses |-> losses, returns |-> returns]

InitCommon ==
  /\ stopRequested = [p \in Procs |-> FALSE]
  /\ runCount = [p \in Procs |-> 0]
  /\ attempts = [p \in Procs |-> 0]
  /\ totalProfit = [p \in Procs |-> 0]
  /\ bestProfit = [p \in Procs |-> NegInfinity]
  /\ bestConfig = [p \in Procs |-> NoConfig]
  /\ configHash = [p \in Procs |-> NoConfig]
  /\ performance = [p \in Procs |-> 0]
  /\ sessionSummary = [p \in Procs |-> NoSession]
  /\ runs = [h \in Hashes |-> NoRecord]
  /\ sessions = [k \in SessionKeys |-> NoSession]
  /\ trades = [h \in Hashes |-> <<>>]
  /\ started = [p \in Procs |-> 0]
  /\ completions = [p \in Procs |-> 0]
  /\ tradeCalls = [p \in Procs |-> 0]
  /\ updateCalls = [p \in Procs |-> 0]
  /\ finalCalls = [p \in Procs |-> 0]
  /\ lastUpdate = [p \in Procs |-> NoUpdate]
  /\ profits = [p \in Procs |-> <<>>]
  /\ stopWritten = FALSE
  /\ allowedRuns = [p \in Procs |-> 0]
  /\ sigintMidRun = [p \in Procs |-> FALSE]

\* no simulation pass is being followed, no direct registry call was made
SimIdle ==
  /\ simPc = "idle"
  /\ candleIndex = INDICATOR_WARMUP_PERIOD
  /\ prevPosition = FlatPosition
  /\ openTrade = NoTrade
  /\ thisTrades = <<>>
  /\ openPosition = NoPosition
  /\ perfResult = NoPerformance
  /\ perfArgs = NoArgs
  /\ positions = <<>>
ApiIdle == apiCall = NoCall

\* one orchestrator, a store that may fail
Init ==
  /\ InitCommon /\ SimIdle /\ ApiIdle
  /\ pc = [p \in Procs |-> IF p = "o1" THEN "setup" ELSE "off"]
  /\ faults = 0
  /\ quota = [p \in Procs |-> IF p = "o1" THEN MaxRuns ELSE 0]

\* two orchestrators on the same context, one iteration each, a reliable store
InitConc ==
  /\ InitCommon /\ SimIdle /\ ApiIdle
  /\ pc = [p \in Procs |-> "setup"]
  /\ faults = MaxFaults
  /\ quota = [p \in Procs |-> 1]

\* exchange creation, the historical fetch and the indicator precomputation:
\* zero candles (or a failing construction) throws into the catch block
Setup(p) ==
  /\ pc[p] = "setup"
  /\ \E candles \in {<<>>, fetchedCandles} :
       pc' = [pc EXCEPT ![p] = IF Len(candles) = 0 THEN "catch" ELSE "loop"]
  /\ UNCHANGED <<auxVars, stopRequested, loopVars, accVars, configHash, runVars,
                 storeVars, envVars, histVars>>

\* while (!stopRequested) { runCount++; attempts = 0; ...
LoopTop(p) ==
  /\ pc[p] = "loop"
  /\ IF LoopCond(p)
       THEN /\ runCount[p] < quota[p]
            /\ runCount' = [runCount EXCEPT ![p] = @ + 1]
            /\ attempts' = [attempts EXCEPT ![p] = 0]
            /\ pc' = [pc EXCEPT ![p] = "check"]
       ELSE /\ pc' = [pc EXCEPT ![p] = "final"]
            /\ UNCHANGED loopVars
  /\ UNCHANGED <<auxVars, stopRequested, accVars, configHash, runVars,
                 storeVars, envVars, histVars>>

\* one pass of do { generate; checkBacktestRunStatus; attempts++ } while (...)
CheckStatus(p) ==
  /\ pc[p] = "check"
  /\ \E h \in Hashes, ok \in Outcomes :
       /\ Fail(ok)
       /\ configHash' = [configHash EXCEPT ![p] = h]
       /\ LET next == AfterCheck(checkBacktestRunStatus(ok, runs[h], h), attempts[p] + 1)
          IN /\ pc' = [pc EXCEPT ![p] = next]
             \* attempts is block-scoped: it is dead once the do-while is left
             /\ attempts' = [attempts EXCEPT ![p] = IF next = "check" THEN @ + 1 ELSE 0]
  /\ UNCHANGED <<auxVars, stopRequested, runCount, accVars, runVars,
                 storeVars, quota, histVars>>

RecordStart(p) ==
  /\ pc[p] = "start"
  /\ \E ok \in Outcomes :
       /\ Fail(ok)
       /\ runs' = recordBacktestRunStart(ok, configHash[p], p)
  /\ started' = [started EXCEPT ![p] = @ + 1]
  /\ pc' = [pc EXCEPT ![p] = "sim"]
  /\ UNCHANGED <<auxVars, stopRequested, loopVars, accVars, configHash, runVars,
                 sessions, trades, quota,
                 completions, tradeCalls, updateCalls, finalCalls, lastUpdate,
                 profits, stopVars>>

\* the simulation pass and computePerformance: the run's profit
Simulate(p) ==
  /\ pc[p] = "sim"
  /\ \E profit \in Profits : performance' = [performance EXCEPT ![p] = profit]
  /\ pc' = [pc EXCEPT ![p] = "complete"]
  /\ UNCHANGED <<auxVars, stopRequested, loopVars, accVars, configHash, sessionSummary,
                 storeVars, envVars, histVars>>

\* an unexpected exception inside the iteration
Throw(p) ==
  /\ pc[p] = "sim"
  /\ pc' = [pc EXCEPT ![p] = "catch"]
  /\ UNCHANGED <<auxVars, stopRequested, loopVars, accVars, configHash, runVars,
                 storeVars, envVars, histVars>>

RecordCompletionNotAwaited(p) ==
  /\ pc[p] = "complete"
  /\ pc' = [pc EXCEPT ![p] = "trades"]
  /\ UNCHANGED <<auxVars, stopRequested, loopVars, accVars, configHash, runVars,
                 storeVars, envVars, histVars>>
RecordCompletion(p) ==
  /\ pc[p] = "complete"
  /\ \E ok \in Outcomes :
       /\ Fail(ok)
       /\ runs' = recordBacktestRunCompletion(ok, configHash[p], p, "completed",
                                              configHash[p], performance[p])
  /\ completions' = [completions EXCEPT ![p] = @ + 1]
  /\ profits' = [profits EXCEPT ![p] = Append(@, performance[p])]
  /\ pc' = [pc EXCEPT ![p] = "trades"]
  /\ UNCHANGED <<auxVars, stopRequested, loopVars, accVars, configHash, runVars,
                 sessions, trades, quota,
                 started, tradeCalls, updateCalls, finalCalls, lastUpdate,
                 stopVars>>

\* performanceRegistry.storeTrades, then the per-run summary is built
StoreTrades(p) ==
  /\ pc[p] = "trades"
  /\ \E ok \in Outcomes :
       /\ Fail(ok)
       /\ trades' = IF ok THEN [trades EXCEPT ![configHash[p]] = <<p>>] ELSE trades
  /\ tradeCalls' = [tradeCalls EXCEPT ![p] = @ + 1]
  /\ sessionSummary' = [sessionSummary EXCEPT ![p] = RunSummary(p)]
  /\ pc' = [pc EXCEPT ![p] = "update"]
  /\ UNCHANGED <<auxVars, stopRequested, loopVars, accVars, configHash, performance,
                 runs, sessions, quota,
                 started, completions, updateCalls, finalCalls, lastUpdate,
                 profits, stopVars>>

\* sessionRegistry.updateSession(ctx, sessionSummary), then progress tracking
UpdateSession(p) ==
  /\ pc[p] = "update"
  /\ \E ok \in Outcomes :
       /\ Fail(ok)
       /\ sessions' = updateSession(ok, RunCtx, sessionSummary[p])
       /\ lastUpdate' = [lastUpdate EXCEPT ![p] =
                           UpdateCall("run", ok, RunCtx, sessionSummary[p])]
  /\ updateCalls' = [updateCalls EXCEPT ![p] = @ + 1]
  /\ totalProfit' = [totalProfit EXCEPT ![p] = @ + performance[p]]
  /\ IF performance[p] > bestProfit[p]
       THEN /\ bestProfit' = [bestProfit EXCEPT ![p] = performance[p]]
            /\ bestConfig' = [bestConfig EXCEPT ![p] = configHash[p]]
       ELSE UNCHANGED <<bestProfit, bestConfig>>
  \* configHash and performance are block-scoped and not read again
  /\ configHash' = [configHash EXCEPT ![p] = NoConfig]
  /\ performance' = [performance EXCEPT ![p] = 0]
  /\ pc' = [pc EXCEPT ![p] = "fetch"]
  /\ UNCHANGED <<auxVars, stopRequested, loopVars, sessionSummary,
                 runs, trades, quota,
                 started, completions, tradeCalls, finalCalls,
                 profits, stopVars>>

\* latestSessionSummary = await fetchSession(sessionCtx) and the tests on it;
\* the value read is used in this step only
FetchSession(p) ==
  /\ pc[p] = "fetch"
  /\ \E ok \in Outcomes :
       /\ Fail(ok)
       /\ pc' = [pc EXCEPT ![p] = AfterFetch(fetchSession(ok, RunCtx))]
  /\ UNCHANGED <<auxVars, stopRequested, loopVars, accVars, configHash, runVars,
                 storeVars, quota, histVars>>

\* await sleep(2000) inside the paused loop
Sleep(p) ==
  /\ pc[p] = "sleep"
  /\ pc' = [pc EXCEPT ![p] = "fetch"]
  /\ UNCHANGED <<auxVars, stopRequested, loopVars, accVars, configHash, runVars,
                 storeVars, envVars, histVars>>

\* the final session update after the loop, then return success
FinalUpdate(p) ==
  /\ pc[p] = "final"
  /\ \E ok \in Outcomes :
       /\ Fail(ok)
       /\ sessions' = updateSession(ok, RunCtx, FinalSummary(p))
       /\ lastUpdate' = [lastUpdate EXCEPT ![p] =
                           UpdateCall("final", ok, RunCtx, FinalSummary(p))]
  /\ finalCalls' = [finalCalls EXCEPT ![p] = @ + 1]
  /\ pc' = [pc EXCEPT ![p] = "done"]
  /\ UNCHANGED <<auxVars, stopRequested, loopVars, accVars, configHash, runVars,
                 runs, trades, quota,
                 started, completions, tradeCalls, updateCalls,
                 profits, stopVars>>

\* catch block: best-effort failed write, then return a failure result
Catch(p) ==
  /\ pc[p] = "catch"
  /\ \E ok \in Outcomes :
       /\ Fail(ok)
       /\ sessions' = updateSession(ok, failedSessionCtx, failedSessionSummary)
       /\ lastUpdate' = [lastUpdate EXCEPT ![p] =
                           UpdateCall("failed", ok, failedSessionCtx, failedSessionSummary)]
  /\ pc' = [pc EXCEPT ![p] = "failed"]
  /\ UNCHANGED <<auxVars, stopRequested, loopVars, accVars, configHash, runVars,
                 runs, trades, quota,
                 started, completions, tradeCalls, updateCalls, finalCalls,
                 profits, stopVars>>

RunInProgress(p) == pc[p] \in {"sim", "complete", "trades", "update"}

InLoop(p) == pc[p] \in {"loop", "check", "start", "sim", "complete", "trades",
                         "update", "fetch", "sleep"}

\* process.on('SIGINT'): only sets the flag
Sigint(p) ==
  /\ InLoop(p) \/ pc[p] = "final"
  /\ ~stopRequested[p]
  /\ stopRequested' = [stopRequested EXCEPT ![p] = TRUE]
  /\ sigintMidRun' = [sigintMidRun EXCEPT ![p] = RunInProgress(p)]
  /\ UNCHANGED <<auxVars, pc, loopVars, accVars, configHash, runVars,
                 storeVars, envVars, started, completions, tradeCalls,
                 updateCalls, finalCalls, lastUpdate, profits, stopWritten,
                 allowedRuns>>

\* the worker process dies between recordBacktestRunStart and
\* recordBacktestRunCompletion; nothing it holds is written anywhere
Crash(p) ==
  /\ pc[p] \in {"sim", "complete"}
  /\ pc' = [pc EXCEPT ![p] = "crashed"]
  /\ UNCHANGED <<auxVars, stopRequested, loopVars, accVars, configHash, runVars,
                 storeVars, envVars, histVars>>

\* the store drops a record whose TTL has run out; a record written with
\* TTL 0 carries none
Expire(h) ==
  /\ runs[h] # NoRecord
  /\ runs[h].ttl # NoTtl
  /\ runs' = [runs EXCEPT ![h] = NoRecord]

ExpireRun ==
  /\ \E h \in Hashes : Expire(h)
  /\ UNCHANGED <<auxVars, progVars, sessions, trades, envVars, histVars>>

\* ------------------------------------------------------- external actor
ExtWrite(from, to) ==
  /\ sessions[sessionKey(RunCtx)].currentStatus = from
  /\ sessions' = [sessions EXCEPT ![sessionKey(RunCtx)].currentStatus = to]

ExtPause ==
  /\ ExtWrite("running", "paused")
  /\ UNCHANGED <<auxVars, progVars, runs, trades, envVars, histVars>>

ExtResume ==
  /\ ExtWrite("paused", "running")
  /\ UNCHANGED <<auxVars, progVars, runs, trades, envVars, histVars>>

\* the iteration in progress when the stop is written may finish; at "loop" the
\* control check has already passed and the next iteration is under way
IterationsBegun(p) == runCount[p] + (IF pc[p] = "loop" THEN 1 ELSE 0)

ExtStop ==
  /\ ExtWrite("running", "stopped")
  /\ \E p \in Procs : InLoop(p)
  /\ stopWritten' = TRUE
  /\ allowedRuns' =
       IF stopWritten THEN allowedRuns
       ELSE [p \in Procs |-> IterationsBegun(p)]
  /\ UNCHANGED <<auxVars, progVars, runs, trades, envVars, started, completions,
                 tradeCalls, updateCalls, finalCalls, lastUpdate, profits, sigintMidRun>>

Next ==
  \/ \E p \in Procs : Setup(p)
  \/ \E p \in Procs : LoopTop(p)
  \/ \E p \in Procs : CheckStatus(p)
  \/ \E p \in Procs : RecordStart(p)
  \/ \E p \in Procs : Simulate(p)
  \/ \E p \in Procs : Throw(p)
  \/ \E p \in Procs : RecordCompletion(p)
  \/ \E p \in Procs : StoreTrades(p)
  \/ \E p \in Procs : UpdateSession(p)
  \/ \E p \in Procs : FetchSession(p)
  \/ \E p \in Procs : Sleep(p)
  \/ \E p \in Procs : FinalUpdate(p)
  \/ \E p \in Procs : Catch(p)
  \/ \E p \in Procs : Sigint(p)
  \/ \E p \in Procs : Crash(p)
  \/ ExpireRun
  \/ ExtPause
  \/ ExtResume
  \/ ExtStop

Spec == Init /\ [][Next]_vars
SpecConc == InitConc /\ [][Next]_vars

\* the store's clock runs: a TTL that can run out eventually does
\* every await of executeScript returns and the event loop runs the next
\* step of each orchestrator; nothing obliges a crash, an exception, a signal
\* or an external actor to happen
OrchestratorStep(p) ==
  \/ Setup(p) \/ LoopTop(p) \/ CheckStatus(p) \/ RecordStart(p) \/ Simulate(p)
  \/ RecordCompletion(p) \/ StoreTrades(p) \/ UpdateSession(p)
  \/ FetchSession(p) \/ Sleep(p) \/ FinalUpdate(p) \/ Catch(p)
SpecFair ==
  Init /\ [][Next]_vars /\ \A p \in Procs : WF_vars(OrchestratorStep(p))

SpecExpiry == InitConc /\ [][Next]_vars /\ WF_vars(ExpireRun)

\* ------------------------------------------------- one simulation pass
\* one candle of the simulation loop: the market reports positionEnd, the
\* trade tracking logic runs, prevPosition is replaced
SimStep ==
  /\ simPc = "candles"
  /\ candleIndex < INDICATOR_WARMUP_PERIOD + MaxCandles
  /\ \E positionEnd \in Snapshots :
       LET currentTimestamp == candleTimestamp(candleIndex)
           r == TrackTrade(prevPosition, positionEnd, currentTimestamp,
                           candleClose(candleIndex), openTrade, thisTrades)
           snapshot == [size |-> positionEnd.size,
                        entryPrice |-> positionEnd.entryPrice,
                        entryTimestamp |-> currentTimestamp,
                        realizedPnl |-> positionEnd.realizedPnl]
       IN /\ openTrade' = r.openTrade
          /\ thisTrades' = r.trades
          /\ prevPosition' = snapshot
          /\ positions' = Append(positions, snapshot)
  /\ candleIndex' = candleIndex + 1
  /\ UNCHANGED <<simPc, openPosition, perfResult, perfArgs, apiCall,
                 progVars, storeVars, envVars, histVars>>

\* the data ends: a still open position is flushed into this.trades and
\* handed to computePerformance as openPosition
SimFlush ==
  /\ simPc = "candles"
  /\ \E finalQuoteBalance \in QuoteBalances :
       LET positionEndFinal == prevPosition
           lastCandle == candleIndex - 1
           flush == positionEndFinal.size # 0 /\ openTrade # NoTrade
           closed == CloseTrade(openTrade, candleTimestamp(lastCandle),
                                candleClose(lastCandle), positionEndFinal.size,
                                positionEndFinal, prevPosition)
           list == IF flush THEN Append(thisTrades, closed) ELSE thisTrades
           open == IF flush
                     THEN [entryPrice |-> closed.entryPrice,
                           entryTimestamp |-> closed.entryTimestamp,
                           size |-> closed.entrySize,
                           currentPrice |-> closed.exitPrice,
                           currentTimestamp |-> closed.exitTimestamp]
                     ELSE NoPosition
       IN /\ openTrade' = IF flush THEN closed ELSE openTrade
          /\ thisTrades' = list
          /\ openPosition' = open
          /\ perfResult' = computePerformance(list, initialBalance,
                                              finalQuoteBalance, open)
          /\ perfArgs' = [initialBalance |-> initialBalance,
                          finalQuoteBalance |-> finalQuoteBalance]
  /\ simPc' = "done"
  /\ UNCHANGED <<candleIndex, prevPosition, positions, apiCall,
                 progVars, storeVars, envVars, histVars>>

\* a simulation pass on its own, fed every sequence of position snapshots
InitTrades ==
  /\ InitCommon /\ ApiIdle
  /\ pc = [p \in Procs |-> "off"]
  /\ faults = 0
  /\ quota = [p \in Procs |-> 0]
  /\ simPc = "candles"
  /\ candleIndex = INDICATOR_WARMUP_PERIOD
  /\ prevPosition = FlatPosition
  /\ openTrade = NoTrade
  /\ thisTrades = <<>>
  /\ openPosition = NoPosition
  /\ perfResult = NoPerformance
  /\ perfArgs = NoArgs
  /\ positions = <<FlatPosition>>

NextTrades == SimStep \/ SimFlush

SpecTrades == InitTrades /\ [][NextTrades]_vars

\* ------------------------------------------- computePerformance alone
MaxTrades == 3
PerfPnls == {-200, -50, 1, 50, 100}
PerfSizes == {0, 1}
PerfTrades ==
  {[entryTimestamp |-> 1, entryPrice |-> 10, entrySize |-> sz,
    exitTimestamp |-> 2, exitPrice |-> 10, exitSize |-> sz,
    realizedPnl |-> pnl] : sz \in PerfSizes, pnl \in PerfPnls}
PerfBalances == {950, 1050}
PerfOpenPositions ==
  {NoPosition,
   [entryPrice |-> 10, entryTimestamp |-> 2, size |-> 1,
    currentPrice |-> 12, currentTimestamp |-> 3]}

\* a caller puts one more closed trade on the list
PerfAddTrade ==
  /\ simPc = "calc"
  /\ Len(thisTrades) < MaxTrades
  /\ \E tr \in PerfTrades : thisTrades' = Append(thisTrades, tr)
  /\ UNCHANGED <<simPc, candleIndex, prevPosition, openTrade, openPosition,
                 perfResult, perfArgs, positions, apiCall,
                 progVars, storeVars, envVars, histVars>>

\* computePerformance(this.trades, initialBalance, finalQuoteBalance, open)
PerfCompute ==
  /\ simPc = "calc"
  /\ \E finalQuoteBalance \in PerfBalances, open \in PerfOpenPositions :
       /\ openPosition' = open
       /\ perfResult' = computePerformance(thisTrades, initialBalance,
                                           finalQuoteBalance, open)
       /\ perfArgs' = [initialBalance |-> initialBalance,
                       finalQuoteBalance |-> finalQuoteBalance]
  /\ simPc' = "done"
  /\ UNCHANGED <<candleIndex, prevPosition, openTrade, thisTrades, positions,
                 apiCall, progVars, storeVars, envVars, histVars>>

InitPerf ==
  /\ InitCommon /\ ApiIdle
  /\ pc = [p \in Procs |-> "off"]
  /\ faults = 0
  /\ quota = [p \in Procs |-> 0]
  /\ simPc = "calc"
  /\ candleIndex = INDICATOR_WARMUP_PERIOD
  /\ prevPosition = FlatPosition
  /\ openTrade = NoTrade
  /\ thisTrades = <<>>
  /\ openPosition = NoPosition
  /\ perfResult = NoPerformance
  /\ perfArgs = NoArgs
  /\ positions = <<>>

NextPerf == PerfAddTrade \/ PerfCompute

SpecPerf == InitPerf /\ [][NextPerf]_vars

\* --------------------------------------- direct callers of the registries
BotIds == {"b1", "b2"}
\* contexts of the calls: one fingerprint, or none (configHash is optional)
ApiHashes == {"h1", NoConfig}
ApiContexts == {RunCtx, failedSessionCtx}
ApiSummaries ==
  {[currentStatus |-> "running", active |-> TRUE, notes |-> ""],
   [currentStatus |-> "paused", active |-> TRUE, notes |-> ""]}
StoredRun(h) == IF h = NoConfig THEN NoRecord ELSE runs[h]

ApiCheckStatus ==
  /\ \E h \in ApiHashes, ok \in BOOLEAN :
       apiCall' = [op |-> "checkStatus", h |-> h, ok |-> ok, before |-> StoredRun(h),
                   result |-> checkBacktestRunStatus(ok, StoredRun(h), h),
                   record |-> checkBacktestRunRecord(ok, StoredRun(h), h)]
  /\ UNCHANGED <<simVars, progVars, storeVars, envVars, histVars>>

ApiRecordStart ==
  /\ \E h \in ApiHashes, botId \in BotIds, ok \in BOOLEAN :
       /\ runs' = recordBacktestRunStart(ok, h, botId)
       /\ apiCall' = [op |-> "recordStart", h |-> h, ok |-> ok, before |-> StoredRun(h),
                      botId |-> botId, result |-> registryWriteResult(ok, h)]
  /\ UNCHANGED <<simVars, progVars, sessions, trades, envVars, histVars>>

ApiRecordCompletion ==
  /\ \E h \in ApiHashes, botId \in BotIds, status \in {"completed", "failed"},
        results \in Profits, ok \in BOOLEAN :
       /\ runs' = recordBacktestRunCompletion(ok, h, botId, status, h, results)
       /\ apiCall' = [op |-> "recordCompletion", h |-> h, ok |-> ok,
                      before |-> StoredRun(h), botId |-> botId, status |-> status,
                      configuration |-> h, results |-> results,
                      result |-> registryWriteResult(ok, h)]
  /\ UNCHANGED <<simVars, progVars, sessions, trades, envVars, histVars>>

ApiDelete ==
  /\ \E h \in ApiHashes, ok \in BOOLEAN :
       /\ runs' = deleteBacktestRunRecord(ok, h)
       /\ apiCall' = [op |-> "delete", h |-> h, ok |-> ok, before |-> StoredRun(h),
                      result |-> registryWriteResult(ok, h)]
  /\ UNCHANGED <<simVars, progVars, sessions, trades, envVars, histVars>>

ApiUpdateSession ==
  /\ \E ctx \in ApiContexts, summary \in ApiSummaries, ok \in BOOLEAN :
       /\ sessions' = updateSession(ok, ctx, summary)
       /\ apiCall' = [op |-> "update", h |-> "session", ok |-> ok,
                      key |-> sessionKey(ctx), summary |-> summary,
                      result |-> IF ok THEN "true" ELSE "false"]
  /\ UNCHANGED <<simVars, progVars, runs, trades, envVars, histVars>>

ApiFetchSession ==
  /\ \E ctx \in ApiContexts, ok \in BOOLEAN :
       apiCall' = [op |-> "fetch", h |-> "session", ok |-> ok,
                   key |-> sessionKey(ctx), result |-> fetchSession(ok, ctx)]
  /\ UNCHANGED <<simVars, progVars, storeVars, envVars, histVars>>

ApiListSessions ==
  /\ \E scanOk \in BOOLEAN, getOk \in SUBSET SessionKeys :
       LET r == listSessions(scanOk, getOk)
       IN apiCall' = [op |-> "list", h |-> "session",
                      ok |-> scanOk /\ getOk = SessionKeys,
                      result |-> r.result, listed |-> r.listed]
  /\ UNCHANGED <<simVars, progVars, storeVars, envVars, histVars>>

\* the registries called directly, on a store that may fail and expires TTLs
InitApi ==
  /\ InitCommon /\ SimIdle /\ ApiIdle
  /\ pc = [p \in Procs |-> "off"]
  /\ faults = 0
  /\ quota = [p \in Procs |-> 0]

NextApi ==
  \/ ApiCheckStatus
  \/ ApiRecordStart
  \/ ApiRecordCompletion
  \/ ApiDelete
  \/ ApiUpdateSession
  \/ ApiFetchSession
  \/ ApiListSessions
  \/ ExpireRun

SpecApi == InitApi /\ [][NextApi]_vars

\* ======================================================================
\* Properties
\* ======================================================================
RECURSIVE SumSeq(_)
SumSeq(q) == IF q = <<>> THEN 0 ELSE q[1] + SumSeq(Tail(q))

RECURSIVE MaxSeq(_)
MaxSeq(q) == IF Len(q) = 1 THEN q[1]
             ELSE IF q[1] > MaxSeq(Tail(q)) THEN q[1] ELSE MaxSeq(Tail(q))

Terminal == {"completed", "failed"}
StoredStatus == sessions[sessionKey(RunCtx)].currentStatus

\* C1: once a run record is completed or failed, no orchestrator step changes
\* its status again (in particular not back to running).
C1_TerminalStaysTerminal ==
  [][\A h \in Hashes :
       runs[h].status \in Terminal => runs'[h].status = runs[h].status]_vars

\* C2: the orchestrator calls recordStart for a fingerprint only if no run
\* record (running, completed or failed) exists for it at that moment.
C2_ClaimOnlyUnrecorded ==
  [][\A p \in Procs :
       started'[p] # started[p] => runs[configHash[p]] = NoRecord]_vars

\* C3: two orchestrators never both hold a claim on the same fingerprint:
\* they have not both seen not_found for it and both gone on to run it.
Claimed(p) == pc[p] \in {"sim", "complete"}
C3_NoDoubleClaim ==
  \A p, q \in Procs :
    p # q /\ Claimed(p) /\ Claimed(q) => configHash[p] # configHash[q]

\* C4: after an external actor has written currentStatus = stopped while the
\* loop runs (and no store operation has failed), the orchestrator finishes at
\* most the iteration in progress and begins no further one.
C4_StopHonoured ==
  stopWritten /\ faults = 0 => \A p \in Procs : runCount[p] <= allowedRuns[p]

\* C5: the control check leaves "fetch" for "sleep" exactly when the fetch
\* returned paused, for the final update exactly when it returned stopped and
\* for the next iteration on any other result (null for an absent record or a
\* failed read included); sleeping only leads back to a fetch, and no
\* recordStart is issued while polling.
FetchResult == IF faults' = faults THEN StoredStatus ELSE "null"
C5_PauseStopCheck ==
  [][\A p \in Procs :
       /\ pc[p] = "fetch" /\ pc'[p] # "fetch" =>
            pc'[p] = (IF FetchResult = "paused" THEN "sleep"
                      ELSE IF FetchResult = "stopped" THEN "final"
                      ELSE "loop")
       /\ pc[p] = "sleep" => pc'[p] \in {"sleep", "fetch"}
       /\ pc[p] \in {"fetch", "sleep"} =>
            started'[p] = started[p] /\ runCount'[p] = runCount[p]]_vars

C5_Witness ==
  \E p \in Procs : pc[p] = "sleep" /\ StoredStatus = "paused" /\ started[p] >= 1

\* C6: the stored currentStatus of the context's session changes only along
\* running->paused, paused->running, running->stopped, running->completed and
\* running->failed.
SessionEdges ==
  {<<"running", "paused">>, <<"paused", "running">>, <<"running", "stopped">>,
   <<"running", "completed">>, <<"running", "failed">>}
C6_SessionEdges ==
  [][StoredStatus # "null" /\ StoredStatus' # StoredStatus =>
       <<StoredStatus, StoredStatus'>> \in SessionEdges]_vars

\* C7: when the orchestrator has returned after leaving the loop, it has issued
\* exactly one final update, for the context's own session key, with
\* active = false and currentStatus stopped or completed, and that call is its
\* last session write; no final update is issued before the loop is left.
C7_FinalUpdate ==
  \A p \in Procs :
    /\ pc[p] = "done" =>
         /\ finalCalls[p] = 1
         /\ lastUpdate[p].kind = "final"
         /\ lastUpdate[p].key = sessionKey(RunCtx)
         /\ lastUpdate[p].active = FALSE
         /\ lastUpdate[p].currentStatus \in {"stopped", "completed"}
    /\ pc[p] # "done" => finalCalls[p] = 0

C7_Witness ==
  \E p \in Procs :
    pc[p] = "done" /\ ~stopRequested[p] /\ lastUpdate[p].currentStatus = "completed"

\* C8: SIGINT changes nothing but the flag; once the flag is set no further
\* iteration begins; if it arrived while a claimed run was in progress no
\* further recordStart is issued; and when the loop is left every claimed run
\* has had its recordCompletion, trade-store write and session update.
C8_CooperativeInterrupt ==
  [][\A p \in Procs :
       /\ stopRequested'[p] # stopRequested[p] =>
            UNCHANGED <<pc, loopVars, accVars, configHash, runVars, storeVars>>
       /\ stopRequested[p] => runCount'[p] = runCount[p]
       /\ sigintMidRun[p] => started'[p] = started[p]
       /\ pc'[p] = "final" =>
            /\ completions'[p] = started'[p]
            /\ tradeCalls'[p] = started'[p]
            /\ updateCalls'[p] = started'[p]]_vars

C8_Witness ==
  \E p \in Procs :
    /\ sigintMidRun[p] /\ pc[p] = "done"
    /\ started[p] >= 1 /\ completions[p] = started[p]
    /\ tradeCalls[p] = started[p] /\ updateCalls[p] = started[p]

\* C9: after an exception inside a loop iteration the failure write goes to the session record of the
\* context being run (the key the per-run updates use) with
\* currentStatus = failed and active = false.
C9_FailureMarksRunSession ==
  \A p \in Procs :
    pc[p] = "failed" /\ runCount[p] >= 1 =>
      /\ lastUpdate[p].kind = "failed"
      /\ lastUpdate[p].currentStatus = "failed"
      /\ lastUpdate[p].active = FALSE
      /\ lastUpdate[p].key = sessionKey(RunCtx)

\* C10: the summary persisted after run i has runCount = i,
\* avgProfit = (p1+...+pi)/i and bestProfit = max(p1..pi).
C10_SummaryIncludesRun ==
  \A p \in Procs :
    pc[p] = "fetch" /\ lastUpdate[p].kind = "run" =>
      LET s == sessionSummary[p]
          n == Len(profits[p])
      IN /\ s.runCount = n
         /\ s.completedRuns = n
         /\ s.avgProfit[1] * n = SumSeq(profits[p]) * s.avgProfit[2]
         /\ s.bestProfit = MaxSeq(profits[p])

\* C11: the summary persisted after the i-th completed run has runCount and
\* completedRuns equal to i, the number of recordCompletion calls issued so
\* far, skipped iterations notwithstanding; and in the stored session record
\* runCount never decreases while active is true and bestProfit never
\* decreases.
StoredSession == sessions[sessionKey(RunCtx)]
C11_RunCountCountsCompletedRuns ==
  [][/\ \A p \in Procs :
          updateCalls'[p] # updateCalls[p] =>
            /\ sessionSummary[p].runCount = completions[p]
            /\ sessionSummary[p].completedRuns = completions[p]
     /\ (StoredSession # NoSession /\ StoredSession' # NoSession
           /\ StoredSession'.runCount # StoredSession.runCount) =>
          (StoredSession.active => StoredSession'.runCount > StoredSession.runCount)
     /\ (StoredSession # NoSession /\ StoredSession' # NoSession) =>
          StoredSession'.bestProfit >= StoredSession.bestProfit]_vars

\* C12: an iteration whose candidates all collide checks exactly 10 of them,
\* never an 11th, and is then skipped: control is back at the top of the loop
\* with no recordStart, recordCompletion, trade write or session update issued
\* and nothing written to the store.
CheckStep(p) ==
  pc[p] = "check" /\ (pc'[p] # "check" \/ attempts'[p] # attempts[p])
Collided(p) == faults' = faults /\ runs[configHash'[p]] # NoRecord
C12_DedupBound ==
  [][\A p \in Procs :
       /\ pc[p] = "check" => attempts[p] < 10
       /\ CheckStep(p) /\ Collided(p) =>
            pc'[p] = (IF attempts[p] + 1 < 10 THEN "check" ELSE "loop")
       /\ pc[p] = "check" /\ pc'[p] = "loop" =>
            /\ attempts[p] + 1 = 10
            /\ Collided(p)
            /\ runCount'[p] = runCount[p]
            /\ UNCHANGED <<started, completions, tradeCalls, updateCalls,
                           finalCalls, lastUpdate, storeVars>>]_vars

C12_Witness ==
  \E p \in Procs : pc[p] = "loop" /\ runCount[p] > started[p] /\ ~stopRequested[p]

\* C13: checkStatus never throws; it returns the stored status exactly when
\* the read succeeds and a record with the requested configHash is stored,
\* and not_found otherwise.
C13_CheckStatusTotal ==
  apiCall.op = "checkStatus" =>
    /\ apiCall.result # "throws"
    /\ apiCall.result =
         (IF apiCall.ok /\ apiCall.before # NoRecord
               /\ apiCall.before.configHash = apiCall.h
            THEN apiCall.before.status ELSE "not_found")

\* C14: after a successful recordCompletion the record read back is exactly
\* the call's status, botId, configuration and resultsMetadata, whatever was
\* stored before (a running record or an earlier completion), it carries no
\* TTL and the store cannot expire it.
C14_CompletionOverwrites ==
  apiCall.op = "recordCompletion" /\ apiCall.result = "true" =>
    LET read == checkBacktestRunRecord(TRUE, runs[apiCall.h], apiCall.h)
    IN /\ read # NoRecord
       /\ read.status = apiCall.status
       /\ read.botId = apiCall.botId
       /\ read.configuration = apiCall.configuration
       /\ read.resultsMetadata = <<apiCall.results>>
       /\ read.configHash = apiCall.h
       /\ read.ttl = NoTtl
       /\ ~ENABLED Expire(apiCall.h)

C14_Witness ==
  /\ apiCall.op = "recordCompletion" /\ apiCall.result = "true"
  /\ apiCall.before # NoRecord
  /\ apiCall.before.status \in {"completed", "failed"}
  /\ apiCall.before.status # apiCall.status
  /\ apiCall.before.botId # apiCall.botId
  /\ apiCall.before.resultsMetadata # <<apiCall.results>>
  /\ runs[apiCall.h].resultsMetadata = <<apiCall.results>>

\* C15: a record written by recordStart is running with the default TTL of
\* 86400 s, so the store can drop it; when the worker that wrote it has crashed
\* before recordCompletion, the claim eventually disappears from the store
\* (checkStatus then answers not_found and the fingerprint can be claimed).
C15_CrashedClaimExpires ==
  /\ [](\A h \in Hashes :
          runs[h] # NoRecord /\ runs[h].status = "running" =>
            /\ runs[h].ttl = DefaultTtlSeconds
            /\ runs[h].ttl > 0
            /\ ENABLED Expire(h))
  /\ \A p \in Procs, h \in Hashes :
       (pc[p] = "crashed" /\ configHash[p] = h /\ runs[h] # NoRecord
          /\ runs[h].status = "running" /\ runs[h].botId = p)
       ~> (checkBacktestRunStatus(TRUE, runs[h], h) = "not_found"
             \/ runs[h].botId # p)

C15_Witness ==
  \E p, q \in Procs :
    /\ p # q /\ pc[p] = "crashed" /\ started[p] = 1
    /\ runs[configHash[p]] = NoRecord
    /\ checkBacktestRunStatus(TRUE, runs[configHash[p]], configHash[p]) = "not_found"
    /\ pc[q] = "start" /\ configHash[q] = configHash[p]

\* C16: a failing store read or write never reaches the caller of a registry
\* operation: the call returns not_found / false / null (listAll: what could
\* be read) and leaves the store as it was.
C16_StorageFailureContained ==
  [][(apiCall' # apiCall /\ ~apiCall'.ok /\ apiCall'.h # NoConfig) =>
       /\ apiCall'.result # "throws"
       /\ apiCall'.op = "checkStatus" => apiCall'.result = "not_found"
       /\ apiCall'.op \in {"recordStart", "recordCompletion", "delete", "update"} =>
            apiCall'.result = "false"
       /\ apiCall'.op = "fetch" => apiCall'.result = "null"
       /\ UNCHANGED storeVars]_vars

\* C17: when the historical fetch returns zero candles the execution persists
\* nothing: it issues no session write and the store holds no run record, no
\* trade list and no session record.
SetupFailed(p) == pc[p] = "failed" /\ runCount[p] = 0
C17_NothingPersistedOnSetupFailure ==
  \A p \in Procs :
    SetupFailed(p) =>
      /\ lastUpdate[p] = NoUpdate
      /\ \A k \in SessionKeys : sessions[k] = NoSession
      /\ \A h \in Hashes : runs[h] = NoRecord /\ trades[h] = <<>>

\* C18: every maximal stretch of same-sign, non-zero snapshots that ends in
\* a zero-size snapshot has exactly one emitted trade: its entry fields are
\* those of the first snapshot of the stretch, its exit timestamp and price
\* those of the step where the size became zero, its realizedPnl the
\* difference of the realized-PnL field over that step.
PositionSizes == [k \in 1..Len(positions) |-> positions[k].size]
SameSign(i, j) ==
  i >= 1 /\ \A k \in i..j : Sign(positions[k].size) = Sign(positions[j].size)
StretchStart(j) ==
  CHOOSE i \in 1..(j - 1) : SameSign(i, j - 1) /\ ~SameSign(i - 1, j - 1)
ClosesToFlat(j) == positions[j].size = 0 /\ positions[j - 1].size # 0
C18_OneTradePerStretch ==
  \A j \in 2..Len(positions) :
    ClosesToFlat(j) =>
      LET i == StretchStart(j)
          emitted == SelectSeq(thisTrades,
                       LAMBDA t : t.entryTimestamp >= positions[i].entryTimestamp
                                  /\ t.entryTimestamp <= positions[j].entryTimestamp)
      IN /\ Len(emitted) = 1
         /\ emitted[1].entryTimestamp = positions[i].entryTimestamp
         /\ emitted[1].entryPrice = positions[i].entryPrice
         /\ emitted[1].entrySize = positions[i].size
         /\ emitted[1].exitTimestamp = positions[j].entryTimestamp
         /\ emitted[1].exitPrice = 100 + 2 * positions[j].entryTimestamp
         /\ emitted[1].realizedPnl =
              positions[j].realizedPnl - positions[j - 1].realizedPnl

C18_Witness ==
  /\ PositionSizes = <<0, 5, 5, 0>>
  /\ Len(thisTrades) = 1
  /\ thisTrades[1].entryTimestamp = 1
  /\ thisTrades[1].exitTimestamp = 3
  /\ thisTrades[1].entrySize = 5

\* C19: on a step where the size goes from non-zero to non-zero of the
\* opposite sign, the open trade is closed (exit timestamp = that step, exit
\* size = previous size, realizedPnl = delta) and a new trade is opened from
\* the current snapshot; sizes [0, +5, -3] end with two trades, the +5 leg
\* and the -3 leg, both stamped with the step of the flip.
C19_ReversalClosesAndOpens ==
  [][/\ (simPc = "candles" /\ candleIndex' # candleIndex
          /\ prevPosition.size # 0 /\ prevPosition'.size # 0
          /\ Sign(prevPosition.size) # Sign(prevPosition'.size)) =>
         LET ts == prevPosition'.entryTimestamp
         IN /\ Len(thisTrades') = Len(thisTrades) + 1
            /\ SubSeq(thisTrades', 1, Len(thisTrades)) = thisTrades
            /\ thisTrades'[Len(thisTrades')].entryTimestamp = openTrade.entryTimestamp
            /\ thisTrades'[Len(thisTrades')].entrySize = openTrade.entrySize
            /\ thisTrades'[Len(thisTrades')].exitTimestamp = ts
            /\ thisTrades'[Len(thisTrades')].exitSize = prevPosition.size
            /\ thisTrades'[Len(thisTrades')].realizedPnl =
                 prevPosition'.realizedPnl - prevPosition.realizedPnl
            /\ openTrade'.entryTimestamp = ts
            /\ openTrade'.entrySize = prevPosition'.size
            /\ openTrade'.entryPrice = prevPosition'.entryPrice
     /\ (simPc' = "done" /\ PositionSizes' = <<0, 5, -3>>) =>
         /\ Len(thisTrades') = 2
         /\ thisTrades'[1].entrySize = 5 /\ thisTrades'[1].exitTimestamp = 2
         /\ thisTrades'[2].entrySize = -3 /\ thisTrades'[2].entryTimestamp = 2]_vars

C19_Witness ==
  /\ simPc = "done" /\ PositionSizes = <<0, 5, -3>>
  /\ Len(thisTrades) = 2
  /\ thisTrades[1].exitSize = 5 /\ thisTrades[2].entrySize = -3

\* C20: when the run ends with a position still open, numTrades, the wins
\* and losses and the winRate denominator count only the trades closed during
\* the simulation; the open position adds one entry to the return series.
ClosedDuringSimulation ==
  Cardinality({j \in 2..Len(positions) :
                 positions[j - 1].size # 0
                   /\ Sign(positions[j].size) # Sign(positions[j - 1].size)})
C20_OpenPositionNotCounted ==
  simPc = "done" /\ prevPosition.size # 0 =>
    /\ perfResult.numTrades = ClosedDuringSimulation
    /\ perfResult.wins + perfResult.losses = ClosedDuringSimulation
    /\ perfResult.winRate[2] = (IF ClosedDuringSimulation > 0
                                  THEN ClosedDuringSimulation ELSE 1)
    /\ Len(perfResult.returns) = ClosedDuringSimulation + 1

\* ---- C21
\* the equity curve the calculator is specified over: the balance before
\* the first trade, then the balance after each trade
RECURSIVE EquityCurve(_, _)
EquityCurve(list, balance) ==
  IF list = <<>> THEN <<balance>>
  ELSE <<balance>> \o EquityCurve(Tail(list), balance + list[1].realizedPnl)
Wins(list) == Cardinality({k \in 1..Len(list) : list[k].realizedPnl > 0})
\* computePerformance has returned for a list of closed trades whose
\* realizedPnl lead from the initial balance to the final balance
Calculated ==
  /\ simPc = "done" /\ perfResult # NoPerformance
  /\ openPosition = NoPosition
  /\ perfArgs.finalQuoteBalance = perfArgs.initialBalance + SumPnl(thisTrades)

\* C21: with no open position, profit is the final balance minus the initial
\* balance whatever the trades' realizedPnl are, numTrades is the length of
\* the list and winRate is the share of trades with realizedPnl > 0.
C21_ProfitIsBalanceDifference ==
  Calculated =>
    /\ perfResult.profit = perfArgs.finalQuoteBalance - perfArgs.initialBalance
    /\ perfResult.numTrades = Len(thisTrades)
    /\ Len(thisTrades) > 0 =>
         RatEqual(perfResult.winRate, <<Wins(thisTrades), Len(thisTrades)>>)

\* ---- C22
PeakAt(curve, k) == MaxSeq(SubSeq(curve, 1, k))
DrawdownAt(curve, k) == <<PeakAt(curve, k) - curve[k], PeakAt(curve, k)>>
\* the largest (peak - equity) / peak over a curve
CurveMaxDrawdown(curve) ==
  CHOOSE d \in {DrawdownAt(curve, k) : k \in 1..Len(curve)} :
    \A j \in 1..Len(curve) : ~RatGreater(DrawdownAt(curve, j), d)

\* C22: maxDrawdown is the largest (peak - equity) / peak over the equity
\* curve that starts at the initial balance and adds each trade's
\* realizedPnl, the peak being the running maximum of that curve.
C22_MaxDrawdownOverEquityCurve ==
  Calculated =>
    RatEqual(perfResult.maxDrawdown,
             CurveMaxDrawdown(EquityCurve(thisTrades, perfArgs.initialBalance)))

\* ---- C23
AllEqual(returns) ==
  \A i, j \in 1..Len(returns) : RatEqual(returns[i], returns[j])

\* C23: the calculator always returns a result; an empty list with no open
\* position gives profit = final - initial, sharpe 0, winRate 0, numTrades 0
\* and maxDrawdown 0; sharpe is 0 whenever the return series is empty or all
\* its returns are equal; a trade whose entrySize * entryPrice is 0 gets its
\* return computed with denominator 1.
C23_NeutralResult ==
  simPc = "done" =>
    /\ perfResult # NoPerformance
    /\ thisTrades = <<>> /\ openPosition = NoPosition =>
         /\ perfResult.profit = perfArgs.finalQuoteBalance - perfArgs.initialBalance
         /\ perfResult.sharpe.zero
         /\ RatEqual(perfResult.winRate, <<0, 1>>)
         /\ perfResult.numTrades = 0
         /\ RatEqual(perfResult.maxDrawdown, <<0, 1>>)
    /\ AllEqual(perfResult.returns) => perfResult.sharpe.zero
    /\ \A k \in 1..Len(thisTrades) :
         thisTrades[k].entrySize * thisTrades[k].entryPrice = 0 =>
           perfResult.returns[k] = <<thisTrades[k].realizedPnl, 1>>

\* ---- C24
RunningClaims(p) ==
  {h \in Hashes : runs[h].status = "running" /\ runs[h].botId = p}
Exited(p) == pc[p] \in {"done", "failed"}

\* C24: once an orchestrator has exited, normally or through the top-level
\* failure path, no record it claimed is still running: each was overwritten
\* by recordCompletion with a terminal status (no store operation failed).
C24_NoRunningRecordAfterExit ==
  \A p \in Procs : Exited(p) /\ faults = 0 => RunningClaims(p) = {}

PersistedSummary(p) ==
  IF finalCalls'[p] # finalCalls[p] THEN FinalSummary(p) ELSE sessionSummary[p]
PersistsSummary(p) ==
  updateCalls'[p] # updateCalls[p] \/ finalCalls'[p] # finalCalls[p]
\* h is the fingerprint of a completed run of p whose profit is profit
CompletedRunWith(p, h, profit) ==
  /\ h \in Hashes
  /\ runs[h].status = "completed" /\ runs[h].botId = p
  /\ runs[h].resultsMetadata = <<profit>>

\* C26: the best run is replaced only by a run with strictly greater profit,
\* and in every summary the orchestrator persists after a completed run
\* bestConfigHash is the fingerprint of a completed run whose profit is the
\* summary's bestProfit (no store operation failed).
C26_BestIsACompletedRun ==
  [][\A p \in Procs :
       /\ (bestConfig'[p] # bestConfig[p] \/ bestProfit'[p] # bestProfit[p]) =>
            /\ performance[p] > bestProfit[p]
            /\ bestProfit'[p] = performance[p]
            /\ bestConfig'[p] = configHash[p]
       /\ PersistsSummary(p) /\ completions[p] >= 1 /\ faults' = 0 =>
            CompletedRunWith(p, PersistedSummary(p).bestConfigHash,
                             PersistedSummary(p).bestProfit)
    ]_vars

\* ---- C27
FlushedTrade == thisTrades[Len(thisTrades)]
FinalCandle == candleIndex - 1

\* C27: when the data ends with a trade open, the flush appends one closing
\* trade whose exit timestamp and price are the final candle's timestamp and
\* close and whose realizedPnl is (final close - entryPrice) * size; every
\* trade of the list handed on is closed, its exit not before its entry.
C27_FlushMarksToFinalPrice ==
  simPc = "done" /\ positions # <<>> =>
    /\ openPosition # NoPosition =>
         /\ FlushedTrade.exitTimestamp = candleTimestamp(FinalCandle)
         /\ FlushedTrade.exitPrice = candleClose(FinalCandle)
         /\ FlushedTrade.realizedPnl =
              (candleClose(FinalCandle) - FlushedTrade.entryPrice) * FlushedTrade.entrySize
    /\ \A k \in 1..Len(thisTrades) :
         thisTrades[k].exitTimestamp >= thisTrades[k].entryTimestamp

\* ---- C28
\* C28: after every step of the simulation loop an open trade exists exactly
\* when the step's position size is non-zero (so a close or a reversal
\* always finds its open trade), no trade has entrySize 0, and the emitted
\* trades are in chronological order, each exit not after the next entry.
C28_OpenTradeIffPosition ==
  positions # <<>> =>
    /\ simPc = "candles" => (openTrade # NoTrade <=> prevPosition.size # 0)
    /\ openTrade # NoTrade => openTrade.entrySize # 0
    /\ \A k \in 1..Len(thisTrades) : thisTrades[k].entrySize # 0
    /\ \A k \in 1..(Len(thisTrades) - 1) :
         thisTrades[k].exitTimestamp <= thisTrades[k + 1].entryTimestamp
    /\ simPc = "candles" /\ openTrade # NoTrade /\ thisTrades # <<>> =>
         thisTrades[Len(thisTrades)].exitTimestamp <= openTrade.entryTimestamp

\* a reversal from +5 to -3 has closed one trade and opened the next in the
\* same step
C28_Witness ==
  /\ simPc = "candles"
  /\ Len(thisTrades) = 1 /\ openTrade # NoTrade
  /\ thisTrades[1].entrySize = 5 /\ openTrade.entrySize = -3
  /\ thisTrades[1].exitTimestamp = openTrade.entryTimestamp
  /\ prevPosition.size = -3

\* ---- C29
\* C29: every summary an orchestrator persists after a completed run, the
\* per-run ones and the final one, has lastConfigHash equal to the
\* fingerprint of the most recently completed run and currentProfit equal to
\* that run's profit (no store operation failed).
C29_LastRunInSummary ==
  [][\A p \in Procs :
       /\ updateCalls'[p] # updateCalls[p] =>
            /\ PersistedSummary(p).lastConfigHash = configHash[p]
            /\ PersistedSummary(p).currentProfit = profits[p][Len(profits[p])]
       /\ finalCalls'[p] # finalCalls[p] /\ updateCalls[p] >= 1 /\ faults' = 0 =>
            /\ PersistedSummary(p).lastConfigHash = sessionSummary[p].lastConfigHash
            /\ PersistedSummary(p).currentProfit = profits[p][Len(profits[p])]
    ]_vars

\* ---- C30
LeftLoop(p) == pc[p] \in {"done", "failed", "crashed"}

\* C30: once the stop flag is set while the orchestrator is in its loop
\* (simulating, skipping collisions or polling a paused session) the
\* orchestrator eventually leaves the loop.
C30_SigintLeadsToExit ==
  \A p \in Procs : (stopRequested[p] /\ InLoop(p)) ~> LeftLoop(p)

TypeOK ==
  /\ \A p \in Procs : runCount[p] \in 0..MaxRuns /\ attempts[p] \in 0..MaxAttempts
====
